---- MODULE Spec2Model ----
(***************************************************************************)
(* NodeHistoryCache (cache.py): a cache of the history of one OPC UA node, *)
(* keyed by time intervals, filled gap by gap through the paging reader    *)
(* node_read_full_history.                                                 *)
(*                                                                         *)
(* Timestamps are the integers 0..MaxTime.  A data value is modelled by    *)
(* its SourceTimestamp (the node's history does not change, so a timestamp *)
(* names one value).  An interval of the portion library whose bounds are  *)
(* timestamps is modelled by the set of "positions" it contains: position  *)
(* 2*t is the timestamp t itself, position 2*t+1 is everything strictly    *)
(* between t and t+1.  Union, intersection and complement are then the set *)
(* operations, an interval's atomic intervals are its maximal runs of      *)
(* consecutive positions, and (0,10) | (10,15) keeps two atomic intervals  *)
(* because the position of 10 is missing, as in portion.                   *)
(***************************************************************************)
EXTENDS Integers, Sequences, FiniteSets, TLC

\* Bounds of the model.
MaxTime == 3
MaxPage == 2

Time == 0..MaxTime
Pos == 0..(2 * MaxTime)
\* No run of the reader asks for more pages than this: the cursor grows
\* with every page but the last.
MaxReads == MaxTime + 2

VARIABLES
    srcPoints,   \* timestamps of the values the node's history holds
    pageSize,    \* most values the server returns for one read_raw_history
    retBounds,   \* the server also returns the first value after endtime
    srcAny,      \* the server is any server with ascending pages >= starttime
    memo,        \* srcAny: the page the server gave for each starttime so far
    history,     \* self.history: the dict, as its items in insertion order
    pc,          \* "idle", "page", "ret"; "fetched": the reader alone ended;
                 \* "raised": an exception left get_history
    qstart,      \* get_history: start
    qend,        \* get_history: end
    gaps,        \* _populate_cache: the atomic intervals of `intervals`
    gi,          \* _populate_cache: index of atomic_int in gaps
    fstart,      \* node_read_full_history: start as passed in
    cur,         \* node_read_full_history: start (the cursor)
    fend,        \* node_read_full_history: end
    acc,         \* the values node_read_full_history has yielded so far
    npages,      \* read_raw_history calls of this node_read_full_history run
    nreads,      \* read_raw_history calls of this get_history call
    result,      \* list(get_history(start, end))
    mark,        \* the range of one earlier get_history call, any of them
    prev,        \* the caller: <<the list the call before returned>>, when
                 \* the call at hand repeats it
    gen          \* the caller: a sequence get_history returned, kept. st:
                 \* "none", "new" (not begun), "live", "done", "error";
                 \* qs, qe: start, end; idx: items the dict iterator has
                 \* passed; used: the dict's size when the iterator began;
                 \* rest: what the filter at hand has yet to yield; out:
                 \* the values yielded; want: list() of it at its return

vars == <<srcPoints, pageSize, retBounds, srcAny, memo, history, pc, qstart,
          qend, gaps, gi, fstart, cur, fend, acc, npages, nreads, result,
          mark, prev, gen>>

srcVars == <<srcPoints, pageSize, retBounds, srcAny>>

callerVars == <<mark, prev, gen>>

\* No sequence is kept.
NoGen ==
    [st |-> "none", qs |-> 0, qe |-> 0, idx |-> 0, used |-> 0, rest |-> <<>>,
     out |-> <<>>, want |-> <<>>]

-----------------------------------------------------------------------------
\* Sequences and sets of timestamps.

Min(S) == CHOOSE x \in S : \A y \in S : x <= y
Max(S) == CHOOSE x \in S : \A y \in S : x >= y
Last(s) == s[Len(s)]
Range(s) == {s[i] : i \in DOMAIN s}

RECURSIVE SetToSeq(_)
SetToSeq(S) ==
    IF S = {} THEN <<>> ELSE <<Min(S)>> \o SetToSeq(S \ {Min(S)})

Prefix(s, n) == SubSeq(s, 1, IF Len(s) < n THEN Len(s) ELSE n)

Count(s, t) == Cardinality({i \in DOMAIN s : s[i] = t})

IsAscending(s) == \A i \in 1..(Len(s) - 1) : s[i] <= s[i + 1]

-----------------------------------------------------------------------------
\* portion.interval, on position sets.

open(lo, hi) == {p \in Pos : 2 * lo < p /\ p < 2 * hi}

empty == {}

\* The atomic interval of S that starts at position p.
AtomicAt(S, p) == {q \in S : q >= p /\ \A r \in p..q : r \in S}

\* All of S, the points between its parts too, as one interval.
Atomics_whole(S) == IF S = {} THEN <<>> ELSE <<Min(S)..Max(S)>>

RECURSIVE Atomics(_)
Atomics(S) ==
    IF S = {} THEN <<>>
    ELSE LET a == AtomicAt(S, Min(S)) IN <<a>> \o Atomics(S \ a)

\* .lower and .upper of a non-empty interval.
lower(I) == Min(I) \div 2
upper(I) == (Max(I) + 1) \div 2

-----------------------------------------------------------------------------
\* The history server.

\* The values a server with this history returns for one read, in order.
ServerValues(starttime, endtime) ==
    LET inRange == {t \in srcPoints : starttime <= t /\ t <= endtime}
        after == {t \in srcPoints : t > endtime /\ t >= starttime}
        bound == IF retBounds /\ after # {} THEN {Min(after)} ELSE {}
    IN SetToSeq(inRange \cup bound)

read_raw_history(starttime, endtime) ==
    Prefix(ServerValues(starttime, endtime), pageSize)

\* Every page of at most MaxPage values that is ascending, with no
\* timestamp twice and none before starttime.
AnyPages(starttime) ==
    {SetToSeq(S) : S \in {T \in SUBSET {t \in Time : t >= starttime} :
                              Cardinality(T) <= MaxPage}}

\* The pages the server may answer one read with.  Any server answers a
\* start time it was asked before as it did then: the cursor of
\* node_read_full_history never comes back to a start time unless the loop
\* fails to end, so this leaves out no run of the code.
SourcePages(starttime, endtime) ==
    IF srcAny
    THEN IF starttime \in DOMAIN memo THEN {memo[starttime]}
         ELSE AnyPages(starttime)
    ELSE {read_raw_history(starttime, endtime)}

-----------------------------------------------------------------------------
\* NodeHistoryCache.

Keys(h) == {h[i].key : i \in DOMAIN h}

\* The key stored last taken for all that is cached.
history_available_interval_last_key(h) ==
    IF h = <<>> THEN empty ELSE h[Len(h)].key

history_available_interval(h) == UNION Keys(h)

get_available_interval(h, start, end) ==
    history_available_interval(h) \cap open(start, end)

\* The request taken alone, as though nothing were cached.
get_missing_intervals_uncached(h, start, end) == open(start, end)

get_missing_intervals(h, start, end) ==
    (Pos \ get_available_interval(h, start, end)) \cap open(start, end)

Span(atomic_int) == open(lower(atomic_int), upper(atomic_int))

\* An assignment that is skipped when there are no values to store.
DictSet_skip_empty(h, span, dvs) ==
    IF dvs = <<>> THEN h
    ELSE IF span \in Keys(h)
    THEN [i \in DOMAIN h |->
             IF h[i].key = span THEN [key |-> span, dvs |-> dvs] ELSE h[i]]
    ELSE Append(h, [key |-> span, dvs |-> dvs])

\* An assignment that leaves the new item alone in the dict.
DictSet_replace_all(h, span, dvs) == <<[key |-> span, dvs |-> dvs]>>

\* self.history[span] = dvs: a new key goes last, an old key keeps its place.
DictSet(h, span, dvs) ==
    IF span \in Keys(h)
    THEN [i \in DOMAIN h |->
             IF h[i].key = span THEN [key |-> span, dvs |-> dvs] ELSE h[i]]
    ELSE Append(h, [key |-> span, dvs |-> dvs])

\* The test of the lower bound alone.
InBounds_from_start(x, start, end) == x >= start

InBounds(x, start, end) == x >= start /\ x <= end

get_partial_dvs(start, end, dvs) ==
    SelectSeq(dvs, LAMBDA x : InBounds(x, start, end))

RECURSIVE DvsFrom(_, _, _, _)
DvsFrom(h, start, end, i) ==
    IF i > Len(h) THEN <<>>
    ELSE LET intersect == h[i].key \cap open(start, end)
         IN (IF intersect = {} THEN <<>>
             ELSE get_partial_dvs(lower(intersect), upper(intersect), h[i].dvs))
            \o DvsFrom(h, start, end, i + 1)

dvs_from_cache(h, start, end) == DvsFrom(h, start, end, 1)

-----------------------------------------------------------------------------
\* node_read_full_history.

\* A page put in front of the values yielded before it.
Emit_in_front(sofar, vals) == vals \o sofar

Emit(sofar, vals) == sofar \o vals

\* The loop without its test for a page that ends at the cursor.
FetchStops_no_repeat_test(start, end, vals) ==
    \/ vals = <<>>
    \/ start > end

FetchStops(start, end, vals) ==
    \/ vals = <<>>
    \/ start = Last(vals)
    \/ start > end

\* self.history[span] = list(dvs) for the atomic interval at hand, then
\* the next atomic interval of _populate_cache, or the return of
\* get_history with the values _dvs_from_cache yields.
Populate(dvs) ==
    /\ history' = DictSet(history, Span(gaps[gi]), dvs)
    /\ IF gi < Len(gaps)
       THEN /\ gi' = gi + 1
            /\ fstart' = lower(gaps[gi + 1])
            /\ cur' = lower(gaps[gi + 1])
            /\ fend' = upper(gaps[gi + 1])
            /\ pc' = "page"
            /\ UNCHANGED <<gaps, result>>
       ELSE /\ result' = dvs_from_cache(history', qstart, qend)
            /\ pc' = "ret"
            /\ gaps' = <<>>
            /\ gi' = 0
            /\ fstart' = 0
            /\ cur' = 0
            /\ fend' = 0
    /\ acc' = <<>>
    /\ npages' = 0

\* One turn of the while loop: a page is read and yielded; the loop moves
\* the cursor to the page's last timestamp, or it ends, and then list(dvs)
\* is complete and _populate_cache goes on.  With no _populate_cache
\* around it (gaps is empty) the run just ends.
ReadPage ==
    /\ pc = "page"
    /\ npages < MaxReads
    /\ \E vals \in SourcePages(cur, fend) :
        /\ memo' = IF srcAny THEN (cur :> vals) @@ memo ELSE memo
        /\ IF ~FetchStops(cur, fend, vals)
           THEN /\ acc' = Emit(acc, vals)
                /\ cur' = Last(vals)
                /\ npages' = npages + 1
                /\ UNCHANGED <<pc, history, gaps, gi, fstart, fend, result>>
           ELSE IF gaps = <<>>
           THEN /\ acc' = Emit(acc, vals)
                /\ pc' = "fetched"
                /\ npages' = npages + 1
                /\ UNCHANGED <<cur, history, gaps, gi, fstart, fend, result>>
           ELSE Populate(Emit(acc, vals))
    /\ nreads' = nreads + 1
    /\ UNCHANGED <<srcVars, qstart, qend, callerVars>>

\* The cache after read_raw_history raised inside list(dvs): the exception
\* leaves _populate_cache before the assignment of line 68.
OnFailure_store_partial(h, span, dvs) == DictSet(h, span, dvs)

OnFailure(h, span, dvs) == h

\* read_raw_history raises while _populate_cache fills an atomic interval;
\* nothing catches the exception, which leaves get_history.
ReadFails ==
    /\ pc = "page"
    /\ gaps # <<>>
    /\ npages < MaxReads
    /\ history' = OnFailure(history, Span(gaps[gi]), acc)
    /\ pc' = "raised"
    /\ nreads' = nreads + 1
    /\ UNCHANGED <<srcVars, memo, qstart, qend, gaps, gi, fstart, cur, fend,
                   acc, npages, result, callerVars>>

\* The caller has caught the exception and goes on.
Caught ==
    /\ pc = "raised"
    /\ pc' = "idle"
    /\ qstart' = 0
    /\ qend' = 0
    /\ gaps' = <<>>
    /\ gi' = 0
    /\ fstart' = 0
    /\ cur' = 0
    /\ fend' = 0
    /\ acc' = <<>>
    /\ npages' = 0
    /\ nreads' = 0
    /\ result' = <<>>
    /\ UNCHANGED <<srcVars, memo, history, callerVars>>

-----------------------------------------------------------------------------
\* get_history.

\* get_history(start, end), up to its first read of the server, or up to
\* its return when nothing is missing.
Call(start, end) ==
    /\ pc \in {"idle", "ret"}
    /\ qstart' = start
    /\ qend' = end
    /\ nreads' = 0
    /\ LET missing == get_missing_intervals(history, start, end)
       IN IF missing # {}
          THEN /\ gaps' = Atomics(missing)
               /\ gi' = 1
               /\ fstart' = lower(gaps'[1])
               /\ cur' = lower(gaps'[1])
               /\ fend' = upper(gaps'[1])
               /\ result' = <<>>
               /\ pc' = "page"
          ELSE /\ result' = dvs_from_cache(history, start, end)
               /\ pc' = "ret"
               /\ UNCHANGED <<gaps, gi, fstart, cur, fend>>
    /\ UNCHANGED <<srcVars, memo, history, acc, npages>>

GetHistory(start, end) ==
    /\ pc = "idle"
    /\ Call(start, end)
    /\ UNCHANGED callerVars

\* The call just returned, made once more with the same arguments.
AgainBody ==
    /\ pc = "ret"
    /\ Call(qstart, qend)

\* The caller is through with the returned sequence.
FinishBody ==
    /\ pc = "ret"
    /\ pc' = "idle"
    /\ qstart' = 0
    /\ qend' = 0
    /\ nreads' = 0
    /\ result' = <<>>
    /\ UNCHANGED <<srcVars, memo, history, gaps, gi, fstart, cur, fend, acc,
                   npages>>

GetHistoryAgain == AgainBody /\ UNCHANGED callerVars

Finish == FinishBody /\ UNCHANGED callerVars

\* Either of the two, with the range of the call just returned kept as the
\* mark.
Remember ==
    /\ AgainBody \/ FinishBody
    /\ mark' = <<qstart, qend>>
    /\ UNCHANGED <<prev, gen>>

\* The caller keeps the list a call returned and repeats the call.
Repeat ==
    /\ AgainBody
    /\ prev' = <<result>>
    /\ UNCHANGED <<mark, gen>>

\* The caller is done with the call and with the list kept before it.
FinishRepeat ==
    /\ FinishBody
    /\ prev' = <<>>
    /\ UNCHANGED <<mark, gen>>

-----------------------------------------------------------------------------
\* The generator _dvs_from_cache returns, consumed step by step.

\* The for loop takes items from the dict iterator until one has values
\* for the range: the iterator raises RuntimeError when the dict has
\* changed size since the loop began, and ends after the last item.
RECURSIVE Advance(_, _)
Advance(g, h) ==
    IF g.used # Len(h) THEN [g EXCEPT !.st = "error"]
    ELSE IF g.idx >= Len(h) THEN [g EXCEPT !.st = "done"]
    ELSE LET intersect == h[g.idx + 1].key \cap open(g.qs, g.qe)
             vals == IF intersect = {} THEN <<>>
                     ELSE get_partial_dvs(lower(intersect), upper(intersect),
                                          h[g.idx + 1].dvs)
             g1 == [g EXCEPT !.idx = g.idx + 1]
         IN IF vals = <<>> THEN Advance(g1, h)
            ELSE [g1 EXCEPT !.rest = vals]

\* yield from: the next value of the filter at hand.
Yield(g) == [g EXCEPT !.out = Append(g.out, Head(g.rest)), !.rest = Tail(g.rest)]

\* The caller keeps the generator get_history returned, not yet begun.
Hold ==
    /\ FinishBody
    /\ gen.st = "none"
    /\ gen' = [st |-> "new", qs |-> qstart, qe |-> qend, idx |-> 0, used |-> 0,
               rest |-> <<>>, out |-> <<>>, want |-> result]
    /\ UNCHANGED <<mark, prev>>

\* next() on the kept generator, between get_history calls: the first one
\* begins the loop over self.history.items().
GenNext ==
    /\ pc = "idle"
    /\ gen.st \in {"new", "live"}
    /\ LET g0 == IF gen.st = "new"
                 THEN [gen EXCEPT !.st = "live", !.used = Len(history)]
                 ELSE gen
           g1 == IF g0.rest # <<>> THEN g0 ELSE Advance(g0, history)
       IN gen' = IF g1.st = "live" THEN Yield(g1) ELSE g1
    /\ UNCHANGED <<srcVars, memo, history, pc, qstart, qend, gaps, gi, fstart,
                   cur, fend, acc, npages, nreads, result, mark, prev>>

\* The caller drops a generator that has ended.
Drop ==
    /\ gen.st \in {"done", "error"}
    /\ gen' = NoGen
    /\ UNCHANGED <<srcVars, memo, history, pc, qstart, qend, gaps, gi, fstart,
                   cur, fend, acc, npages, nreads, result, mark, prev>>

-----------------------------------------------------------------------------
\* The cache of one node over a server that pages its history.

Server ==
    /\ srcPoints \in SUBSET Time
    /\ pageSize \in 1..MaxPage
    /\ retBounds \in BOOLEAN
    /\ srcAny = FALSE

Init ==
    /\ Server
    /\ memo = <<>>
    /\ history = <<>>
    /\ pc = "idle"
    /\ qstart = 0
    /\ qend = 0
    /\ gaps = <<>>
    /\ gi = 0
    /\ fstart = 0
    /\ cur = 0
    /\ fend = 0
    /\ acc = <<>>
    /\ npages = 0
    /\ nreads = 0
    /\ result = <<>>
    /\ mark = <<>>
    /\ prev = <<>>
    /\ gen = NoGen

\* The calls are those with start < end.
Next ==
    \/ \E start \in Time, end \in Time : start < end /\ GetHistory(start, end)
    \/ GetHistoryAgain
    \/ Finish
    \/ ReadPage

Spec == Init /\ [][Next]_vars

\* The same cache, called with any start and end.
NextAnyRange ==
    \/ \E start \in Time, end \in Time : GetHistory(start, end)
    \/ GetHistoryAgain
    \/ Finish
    \/ ReadPage

SpecAnyRange == Init /\ [][NextAnyRange]_vars

\* The same cache over a server whose reads may fail.
NextFail ==
    \/ Next
    \/ ReadFails
    \/ Caught

SpecFail == Init /\ [][NextFail]_vars

\* The same cache, each call repeated any number of times.
NextRepeat ==
    \/ \E start \in Time, end \in Time : start < end /\ GetHistory(start, end)
    \/ Repeat
    \/ FinishRepeat
    \/ ReadPage

SpecRepeat == Init /\ [][NextRepeat]_vars

\* The same cache, one returned generator at a time kept and consumed
\* between later calls.
NextLazy ==
    \/ \E start \in Time, end \in Time : start < end /\ GetHistory(start, end)
    \/ Finish
    \/ ReadPage
    \/ Hold
    \/ GenNext
    \/ Drop

SpecLazy == Init /\ [][NextLazy]_vars

\* The same cache, with the range of one earlier call remembered.
NextMarked ==
    \/ Next
    \/ Remember

SpecMarked == Init /\ [][NextMarked]_vars

\* node_read_full_history(node, start, end) called on its own, over such a
\* server or over any server whose pages are ascending and hold no
\* timestamp before the cursor.
AnyServer ==
    /\ srcPoints = {}
    /\ pageSize = MaxPage
    /\ retBounds = FALSE
    /\ srcAny = TRUE

InitFetch ==
    /\ Server \/ AnyServer
    /\ memo = <<>>
    /\ history = <<>>
    /\ pc = "page"
    /\ qstart = 0
    /\ qend = 0
    /\ gaps = <<>>
    /\ gi = 0
    /\ fstart \in Time
    /\ cur = fstart
    /\ fend \in Time
    /\ acc = <<>>
    /\ npages = 0
    /\ nreads = 0
    /\ result = <<>>
    /\ mark = <<>>
    /\ prev = <<>>
    /\ gen = NoGen

NextFetch == ReadPage

SpecFetch == InitFetch /\ [][NextFetch]_vars /\ WF_vars(ReadPage)

-----
\* Properties.

\* get_history(start, end) with start < end has returned.
Returned == pc = "ret" /\ qstart < qend

\* The timestamps of the node's history inside [start, end].
SourceIn(start, end) == {t \in srcPoints : start <= t /\ t <= end}

\* The copies of timestamp t in the fullest single entry of the cache.
CopiesInOneEntry(h, t) ==
    IF h = <<>> THEN 0 ELSE Max({Count(h[i].dvs, t) : i \in DOMAIN h})

CachedPoints(h) == UNION {Range(h[i].dvs) : i \in DOMAIN h}

\* C1. Coverage completeness: when get_history(start, end) has returned,
\* the union of the cache's keys contains the whole open interval
\* (start, end), the bounds shared by adjacent keys included.
C1_CoverageComplete ==
    Returned => open(qstart, qend) \subseteq history_available_interval(history)

\* C2. Idempotence, no fetch: a get_history call with the arguments of the
\* call before it finds nothing missing and returns with no
\* read_raw_history call.
C2_RepeatReadsNothing ==
    [][(Returned /\ pc' # "idle" /\ qstart' = qstart /\ qend' = qend) =>
           (pc' = "ret" /\ nreads' = 0)]_vars

\* C3. Ascending output: the sequence get_history returns is sorted
\* ascending by timestamp, whatever the order the keys were cached in.
C3_ResultAscending ==
    Returned => IsAscending(result)

\* C4. Exactly-once delivery: every value of the node's history with a
\* timestamp in [start, end] is in the returned sequence, and in no more
\* copies than one gap fetch stored of it (no copy from each of two
\* adjacent entries).
C4_ExactlyOnce ==
    Returned =>
        \A t \in SourceIn(qstart, qend) :
            /\ Count(result, t) >= 1
            /\ Count(result, t) <= CopiesInOneEntry(history, t)

\* C5. Monotonic narrowing: a get_history call for a range inside the range
\* of any earlier call issues no read_raw_history call and returns exactly
\* the cached values with timestamps in the queried range.
C5_NarrowingReadsNothing ==
    (Returned /\ mark # <<>> /\ mark[1] <= qstart /\ qend <= mark[2]) =>
        /\ nreads = 0
        /\ Range(result) =
               {t \in CachedPoints(history) : qstart <= t /\ t <= qend}

\* C6. Gap-fetch completeness under pagination: over a server that answers
\* each read with a prefix (of any size >= 1) of its values in
\* [starttime, endtime], node_read_full_history(node, start, end) has
\* yielded every value with a timestamp in [start, end] when it ends.
C6_FetchComplete ==
    (pc = "fetched" /\ ~srcAny /\ ~retBounds) =>
        SourceIn(fstart, fend) \subseteq Range(acc)

\* C7. Gap-fetch termination: over any server whose pages are ascending
\* with no timestamp before the cursor (an empty page, a page ending at the
\* cursor and a page ending after end included), node_read_full_history
\* ends after finitely many reads.
C7_FetchTerminates ==
    <>(pc = "fetched")

\* A run of node_read_full_history that ended after three reads or more,
\* the last one asked with a cursor after end.
C7_Witness ==
    pc = "fetched" /\ npages >= 3 /\ cur > fend

\* C8 as claimed. Cache-entry well-formedness: every stored sequence is
\* sorted ascending by timestamp and holds no timestamp twice.
C8_EntriesSortedUnique ==
    \A i \in DOMAIN history :
        \A j \in 1..(Len(history[i].dvs) - 1) :
            history[i].dvs[j] < history[i].dvs[j + 1]

\* C8 as amended. Every stored sequence is sorted ascending by timestamp;
\* a timestamp may be stored again right after itself.
C8_EntriesAscending ==
    \A i \in DOMAIN history : IsAscending(history[i].dvs)

\* A stored sequence of several pages that holds a timestamp twice.
C8_Witness ==
    \E i \in DOMAIN history :
        /\ Cardinality(Range(history[i].dvs)) >= 3
        /\ Len(history[i].dvs) > Cardinality(Range(history[i].dvs))

\* C9. Disjoint keys: any two distinct keys of the cache have an empty
\* intersection.
C9_KeysDisjoint ==
    \A k1 \in Keys(history), k2 \in Keys(history) :
        k1 # k2 => k1 \cap k2 = {}

\* A call that filled two gaps, on either side of a key cached before.
C9_Witness ==
    /\ Returned
    /\ Cardinality(Keys(history) \ {empty}) >= 3
    /\ nreads >= 2

\* C10. Append-only store: a step of get_history leaves every item of the
\* cache as it was, key and sequence, and only adds items.
C10_AppendOnly ==
    [][\A i \in DOMAIN history :
           i \in DOMAIN history' /\ history'[i] = history[i]]_vars

\* C11. Invalid range: get_history(start, end) with start >= end ends in
\* an error, not in a normal return, and leaves the cache unchanged.
C11_InvalidRangeRaises ==
    /\ [](pc = "ret" => qstart < qend)
    /\ [][qstart' >= qend' => history' = history]_vars

CallStep == pc \in {"idle", "ret"} /\ pc' # "idle"

\* C13. No redundant fetch: when the union of the cache keys is a superset
\* of the open interval (start, end), get_history(start, end) issues no
\* read_raw_history call and adds no key.
C13_NoRedundantFetch ==
    [][(CallStep /\ open(qstart', qend') \subseteq UNION Keys(history))
         => (pc' = "ret" /\ nreads' = 0 /\ history' = history)]_vars

\* A call inside a key of a cache with several keys has returned, the key
\* holding points the call does not return.
C13_Witness ==
    /\ Returned
    /\ nreads = 0
    /\ Len(history) >= 2
    /\ open(qstart, qend) \subseteq UNION Keys(history)
    /\ \E i \in DOMAIN history : Len(history[i].dvs) > Len(result)

\* C14. Idempotence, result part: over a source whose data does not change,
\* two consecutive calls get_history(start, end) with start < end return
\* the same sequence of points.
C14_SameResultTwice ==
    (Returned /\ prev # <<>>) => result = prev[1]

\* A repeated call that read the source again has returned points of
\* several keys.
C14_Witness ==
    /\ Returned
    /\ prev # <<>>
    /\ nreads > 0
    /\ Len(result) >= 2
    /\ \A i \in DOMAIN history : Len(history[i].dvs) < Len(result)

\* C15. Bounded output: every point get_history(start, end) returns, with
\* start < end, has a timestamp t with start <= t <= end, also when the
\* stored entries hold points outside the range or a page overshot its gap.
C15_ResultInBounds ==
    Returned => \A i \in DOMAIN result : qstart <= result[i] /\ result[i] <= qend

\* A call has returned points of a key that holds a point after the range,
\* read by a page beyond the upper bound of its gap.
C15_Witness ==
    /\ Returned
    /\ result # <<>>
    /\ \E i \in DOMAIN history :
          /\ history[i].key \cap open(qstart, qend) # {}
          /\ \E k \in DOMAIN history[i].dvs :
                /\ history[i].dvs[k] > qend
                /\ history[i].dvs[k] > upper(history[i].key)

\* The part of (start, end) that no key of h covers.
Uncovered(h, start, end) == open(start, end) \ UNION Keys(h)

\* I is one of the maximal intervals M is made of.
IsAtomicOf(M, I) ==
    /\ I # {}
    /\ I \subseteq M
    /\ \A p \in Min(I)..Max(I) : p \in I
    /\ (Min(I) - 1) \notin M
    /\ (Max(I) + 1) \notin M

\* G lists the maximal intervals of M, each once, in ascending order.
ListsAtomics(G, M) ==
    /\ \A j \in DOMAIN G : IsAtomicOf(M, G[j])
    /\ \A j \in DOMAIN G : \A k \in DOMAIN G : j < k => Max(G[j]) < Min(G[k])
    /\ UNION Range(G) = M

\* C16. Gap selection and order: get_history(start, end) starts one gap
\* fetch per atomic interval of the part of (start, end) no key covers, in
\* ascending order, each with the bounds of its gap as arguments, and
\* fetches no range a key covers; with the cache holding one key and a
\* query that leaves its upper end, that is one fetch, from the upper
\* bound of the key to the end of the query.
C16_GapFetches ==
    /\ [][CallStep =>
            LET M == Uncovered(history, qstart', qend')
            IN IF M = {} THEN pc' = "ret"
               ELSE /\ pc' = "page"
                    /\ ListsAtomics(gaps', M)
                    /\ gi' = 1
                    /\ npages' = 0]_vars
    /\ []((pc = "page" /\ gaps # <<>>) =>
            /\ gi \in DOMAIN gaps
            /\ fstart = lower(gaps[gi])
            /\ fend = upper(gaps[gi])
            /\ gaps[gi] \cap UNION Keys(history) = {})
    /\ [][(pc = "page" /\ gaps # <<>>) =>
            \/ /\ pc' = "page"
               /\ gaps' = gaps
               /\ gi' = gi \/ (gi' = gi + 1 /\ npages' = 0)
            \/ pc' = "ret" /\ gi = Len(gaps)]_vars

\* The cache holds the one key (0, 2); get_history(1, 3) has one gap and
\* fetches it with the bounds 2 and 3.
C16_Witness ==
    /\ pc = "page"
    /\ Keys(history) = {open(0, 2)}
    /\ qstart = 1
    /\ qend = 3
    /\ Len(gaps) = 1
    /\ gi = 1
    /\ fstart = 2
    /\ fend = 3

\* The entries of h that hold no points under a key that is an interval.
EmptyEntries(h) == {i \in DOMAIN h : h[i].dvs = <<>> /\ h[i].key # empty}

\* C17. Empty gap: when the first page of a gap is empty, get_history goes
\* on without error, the open interval of the gap becomes a key with an
\* empty sequence, the gap gives no point to the result, and a later
\* get_history call inside that interval reads nothing.
C17_EmptyGap ==
    /\ [][(pc = "page" /\ gaps # <<>> /\ npages = 0
             /\ read_raw_history(cur, fend) = <<>>) =>
            /\ pc' \in {"page", "ret"}
            /\ pc' = "page" => gi' = gi + 1
            /\ \E i \in DOMAIN history' :
                  /\ history'[i].key = open(fstart, fend)
                  /\ history'[i].dvs = <<>>]_vars
    /\ [](Returned =>
            \A i \in EmptyEntries(history) : \A k \in DOMAIN result :
                (2 * result[k]) \notin history[i].key)
    /\ [][(CallStep /\ qstart' < qend'
             /\ \E i \in EmptyEntries(history) :
                   open(qstart', qend') \subseteq history[i].key) =>
            (pc' = "ret" /\ nreads' = 0 /\ result' = <<>>
               /\ history' = history)]_vars

\* Over a history that holds points, a call inside a key that was stored
\* with an empty sequence has returned.
C17_Witness ==
    /\ Returned
    /\ nreads = 0
    /\ srcPoints # {}
    /\ \E i \in EmptyEntries(history) : open(qstart, qend) \subseteq history[i].key

\* C18. Every key of the history mapping is a non-empty open interval
\* (lower, upper) with lower < upper; the empty interval never becomes a
\* key, also when a missing atomic interval is a single point.
C18_KeysNonEmpty ==
    \A i \in DOMAIN history :
        /\ history[i].key # empty
        /\ lower(history[i].key) < upper(history[i].key)
        /\ history[i].key = open(lower(history[i].key), upper(history[i].key))

\* C19. Within one run of node_read_full_history(node, start, end), every
\* page request is issued with a cursor <= end: once the last timestamp of
\* a page exceeds end, read_raw_history is not called again.
C19_CursorWithinEnd ==
    (pc = "page" /\ fstart <= fend) => cur <= fend

\* C20. The lazy sequence get_history(s, e) returned yields the same points
\* in the same order, and raises no error, whatever other get_history
\* calls complete before it is consumed to its end, calls that insert keys
\* while it is partly consumed among them.
C20_LazyStable ==
    /\ gen.st # "error"
    /\ gen.st \in {"live", "done"} =>
          /\ Len(gen.out) <= Len(gen.want)
          /\ gen.out = SubSeq(gen.want, 1, Len(gen.out))
    /\ gen.st = "done" => gen.out = gen.want

====
